---- MODULE Spec2Model ----
(***************************************************************************)
(* Model of the two notebooks held in src/06_fixation_pupil_diameter.ipynb *)
(*                                                                         *)
(*   Tutorial 06 (lines 1-268): mean pupil diameter per fixation on a      *)
(*   surface, the aggregation loop of cell 5 (lines 173-200).              *)
(*   Tutorial 10 (lines 270-890): blink and fixation ids merged into the   *)
(*   gaze frame, the tagging cells 11-14 (lines 593, 615-616, 645-657,     *)
(*   666-671).                                                             *)
(*                                                                         *)
(* One behaviour is one run of one notebook on one set of loaded tables.   *)
(* Spec runs the notebooks as written, on complete tables, and executes    *)
(* the aggregation cell and the tagging cells a second time.               *)
(* SpecThreshold runs cell 5 with the literal of line 173 varied.          *)
(* SpecSchema runs both notebooks on tables that may lack one column.      *)
(* SpecOrder runs both notebooks on samples of one or two instants in any  *)
(* row order, with diameters of 1.0 and 2^53.                              *)
(*                                                                         *)
(* Representation.  Timestamps are float seconds in the source; here a     *)
(* timestamp is a whole number of ticks of TickMs milliseconds, and        *)
(* durations are whole milliseconds.  Every timestamp and duration the     *)
(* model loads is a multiple of half a second, so the float arithmetic of  *)
(* the source (duration / 1000, start + ...) is exact on these inputs.     *)
(* Confidence is held in tenths (0.8 is 8).  A diameter is a whole number; *)
(* the integer Unit53 stands for 2^53, from where on float64 sums round.   *)
(* A mean is the float64 sum over the count, held as a fraction            *)
(* <<numerator, denominator>> in lowest terms; NaN and None are <<>>, and  *)
(* a present label is the one-element sequence <<id>>.                     *)
(***************************************************************************)
EXTENDS Integers, Sequences, FiniteSets

VARIABLES
    min_confidence,         \* 06: the global MIN_CONFIDENCE of cell 5, in tenths
    absent,                 \* <<frame, column>> pairs: columns the loaded csv files lack
    notebook,               \* "06" or "10": which notebook this run executes
    pc,                     \* the next cell to execute
    pupil_positions,        \* 06: frame [pupil_timestamp, diameter_3d, confidence]
    fixations_on_surface,   \* 06: frame [fixation_id, start_timestamp, duration, on_surf]
    results,                \* 06: list of <<fixation_id, mean>> rows
    gaze,                   \* 10: frame [gaze_timestamp, confidence, norm_pos_x
                            \*            (, blink_id, fixation_id)]
    blinks,                 \* 10: frame [id, start_timestamp, end_timestamp]
    fixations               \* 10: frame [id, start_timestamp, duration (, on_surf)
                            \*            (, end_timestamp)]

vars == <<min_confidence, absent, notebook, pc, pupil_positions, fixations_on_surface, results,
          gaze, blinks, fixations>>

----------------------------------------------------------------------------
(* Bounds of the loaded tables *)

MaxSamples == 2
MaxEvents == 2
MaxBlinks == 1

\* rows per table in the runs that vary the threshold or the columns
MaxThresholdRows == 1
MaxSchemaRows == 1

\* rows per table in the runs on the samples of one or two instants
MaxOrderSamples == 3
MaxOrderEvents == 1

----------------------------------------------------------------------------
(* Program constants and units *)

MIN_CONFIDENCE == 8

MS_PER_SECOND == 1000

TickMs == MS_PER_SECOND \div 2

TicksPerSecond == MS_PER_SECOND \div TickMs

\* 10.0 s, the start of the recorded slice
TimeBase == 10 * TicksPerSecond

\* the integer that stands for 2^53 in a diameter: above it float64 no longer
\* holds every integer
Unit53 == 64

NaN == <<>>

None == <<>>

----------------------------------------------------------------------------
(* Values the loaded tables are drawn from *)

Timestamps == {TimeBase, TimeBase + 1, TimeBase + 2}

\* <<diameter_3d, confidence>> of a pupil sample: at, above and just below
\* the threshold
SampleReadings ==
    {<<0, MIN_CONFIDENCE>>, <<6, MIN_CONFIDENCE + 1>>, <<6, MIN_CONFIDENCE - 1>>}

\* <<confidence, norm_pos_x>> of a gaze sample (both in tenths)
GazeReadings == {<<0, 3>>, <<MIN_CONFIDENCE, 5>>}

EventIds == {1, 2}

\* <<start_timestamp (ticks), duration (ms)>>: [10.0, 10.5] and [10.5, 11.5]
EventWindows == {<<TimeBase, TickMs>>, <<TimeBase + 1, 2 * TickMs>>}

\* <<start_timestamp, duration, on_surf>> of a surface fixation row
SurfaceFixations ==
    {<<w[1], w[2], TRUE>> : w \in EventWindows} \cup {<<TimeBase, TickMs, FALSE>>}

\* <<start_timestamp, end_timestamp>> (ticks): [10.0, 10.5] and [10.5, 11.0]
BlinkWindows == {<<TimeBase, TimeBase + 1>>, <<TimeBase + 1, TimeBase + 2>>}

SeqsUpTo(S, n) == UNION {[1..k -> S] : k \in 0..n}

PupilRows ==
    {[pupil_timestamp |-> t, diameter_3d |-> r[1], confidence |-> r[2]] :
        t \in Timestamps, r \in SampleReadings}

FixationOnSurfaceRows ==
    {[fixation_id |-> i, start_timestamp |-> f[1], duration |-> f[2], on_surf |-> f[3]] :
        i \in EventIds, f \in SurfaceFixations}

GazeRows ==
    {[gaze_timestamp |-> t, confidence |-> r[1], norm_pos_x |-> r[2]] :
        t \in Timestamps, r \in GazeReadings}

FixationRows ==
    {[id |-> i, start_timestamp |-> w[1], duration |-> w[2]] :
        i \in EventIds, w \in EventWindows}

\* a fixations table of one row that also carries a validity column, as the
\* surface export of Tutorial 06 does
FlaggedFixationTables ==
    {<<[id |-> 1, start_timestamp |-> TimeBase, duration |-> TickMs, on_surf |-> v]>> :
        v \in BOOLEAN}

\* blink ids are unique in the export: the id of a row follows its position
BlinkTables ==
    UNION {{[k \in 1..n |-> [id |-> k, start_timestamp |-> f[k][1],
                             end_timestamp |-> f[k][2]]] :
                f \in [1..n -> BlinkWindows]} : n \in 0..MaxBlinks}

----------------------------------------------------------------------------
(* Arithmetic helpers *)

RECURSIVE Gcd(_, _)
Gcd(a, b) == IF b = 0 THEN a ELSE Gcd(b, a % b)

\* a / b as an exact fraction in lowest terms (a >= 0, b > 0)
Fraction(a, b) == LET g == Gcd(a, b) IN <<a \div g, b \div g>>

\* number of binary digits of a positive integer
RECURSIVE BitLen(_)
BitLen(n) == IF n = 0 THEN 0 ELSE 1 + BitLen(n \div 2)

RECURSIVE Pow2(_)
Pow2(n) == IF n = 0 THEN 1 ELSE 2 * Pow2(n - 1)

\* float64 rounding (53-bit significand, round to nearest, ties to even) of
\* the non-negative number hi * 2^53 + lo, which the model holds as the
\* integer hi * Unit53 + lo (lo < Unit53).  Below 2^53 every integer is a
\* float64; from 2^53 on the spacing of the floats is 2^BitLen(hi).
FloatRound(v) ==
    LET hi == v \div Unit53
        lo == v % Unit53
        ulp == Pow2(BitLen(hi))
        q == lo \div ulp
        r == lo % ulp
        up == 2 * r > ulp \/ (2 * r = ulp /\ q % 2 = 1)
    IN  IF hi = 0 THEN v
        ELSE hi * Unit53 + (IF up THEN q + 1 ELSE q) * ulp

\* variant: exact addition, nothing rounded
RECURSIVE ExactSum(_, _)
ExactSum(rows, acc) ==
    IF rows = <<>> THEN acc
    ELSE ExactSum(Tail(rows), acc + Head(rows).diameter_3d)

\* Series.sum() in float64: the selected values added one after the other
\* in row order, each partial sum rounded
RECURSIVE SumDiameter(_, _)
SumDiameter(rows, acc) ==
    IF rows = <<>> THEN acc
    ELSE SumDiameter(Tail(rows), FloatRound(acc + Head(rows).diameter_3d))

----------------------------------------------------------------------------
(* Columns *)

\* a column assignment: the row with column col set to value, its other
\* columns kept
WithColumn(row, col, value) ==
    [f \in DOMAIN row \cup {col} |-> IF f = col THEN value ELSE row[f]]

\* frame[[...cols]]: the rows restricted to the columns cols
SelectColumns(frame, cols) ==
    [i \in DOMAIN frame |-> [f \in cols |-> frame[i][f]]]

\* some column of cols is not in the frame called name
Missing(name, cols) == \E c \in cols : <<name, c>> \in absent

\* a table as its csv file gives it when the file lacks the columns in gone
LoadedWithout(frame, name, gone) ==
    [i \in DOMAIN frame |->
        [f \in {c \in DOMAIN frame[i] : <<name, c>> \notin gone} |-> frame[i][f]]]

----------------------------------------------------------------------------
(* Tutorial 06, cell 4: column selection *)

PupilColumns == {"pupil_timestamp", "diameter_3d", "confidence"}

SurfaceFixationColumns == {"fixation_id", "start_timestamp", "duration", "on_surf"}

\* cell 4: line 144 raises KeyError when a selected pupil column is missing;
\* otherwise pupil_positions is rebound and line 145 does the same for the
\* fixations
Cell4_SelectColumns ==
    /\ notebook = "06"
    /\ pc = "cell4"
    /\ IF Missing("pupil_positions", PupilColumns)
       THEN /\ pc' = "KeyError"
            /\ UNCHANGED <<pupil_positions, fixations_on_surface>>
       ELSE /\ pupil_positions' = SelectColumns(pupil_positions, PupilColumns)
            /\ IF Missing("fixations_on_surface", SurfaceFixationColumns)
               THEN /\ pc' = "KeyError"
                    /\ UNCHANGED fixations_on_surface
               ELSE /\ pc' = "cell5"
                    /\ fixations_on_surface' =
                          SelectColumns(fixations_on_surface, SurfaceFixationColumns)
    /\ UNCHANGED <<min_confidence, absent, notebook, results, gaze, blinks, fixations>>

----------------------------------------------------------------------------
(* Tutorial 06, cell 5: the aggregation loop *)

\* variant: the duration taken as seconds, no division
DurationAsSeconds(duration) == duration * TicksPerSecond

\* duration / 1000: milliseconds to seconds (held in ticks)
DurationSeconds(duration) == (duration * TicksPerSecond) \div MS_PER_SECOND

\* variant: groupby sorting the keys in descending order
RECURSIVE SortedKeysDescending(_)
SortedKeysDescending(S) ==
    IF S = {} THEN <<>>
    ELSE LET m == CHOOSE x \in S : \A y \in S : x >= y
         IN  <<m>> \o SortedKeysDescending(S \ {m})

\* the group keys as groupby (sort=True) orders them: ascending
RECURSIVE SortedKeys(_)
SortedKeys(S) ==
    IF S = {} THEN <<>>
    ELSE LET m == CHOOSE x \in S : \A y \in S : x <= y
         IN  <<m>> \o SortedKeys(S \ {m})

RECURSIVE KeysInOrder(_, _)
KeysInOrder(frame, seen) ==
    IF frame = <<>> THEN <<>>
    ELSE LET k == Head(frame).fixation_id
         IN  IF k \in seen THEN KeysInOrder(Tail(frame), seen)
             ELSE <<k>> \o KeysInOrder(Tail(frame), seen \cup {k})

\* variant: groupby(..., sort=False), keys in order of first appearance
GroupKeysUnsorted(frame) == KeysInOrder(frame, {})

\* variant: no grouping, one iteration per row of the frame
GroupKeysPerRow(frame) == [i \in DOMAIN frame |-> frame[i].fixation_id]

\* the keys groupby("fixation_id") iterates: distinct, ascending (sort=True)
GroupKeys(frame) == SortedKeys({frame[i].fixation_id : i \in DOMAIN frame})

\* the rows of one group, in their order in the frame
Group(frame, key) == SelectSeq(frame, LAMBDA row : row.fixation_id = key)

\* variant: the first row of the group that is on the surface, if any
FirstValidFixation(fixs) ==
    IF \E i \in DOMAIN fixs : fixs[i].on_surf
    THEN fixs[CHOOSE i \in DOMAIN fixs :
                 fixs[i].on_surf /\ \A j \in 1..(i - 1) : ~fixs[j].on_surf]
    ELSE fixs[1]

\* variant: fixations.iloc[-1]
LastFixation(fixs) == fixs[Len(fixs)]

\* fixations.iloc[0]
FirstFixation(fixs) == fixs[1]

\* variant: the on_surf test left out
NeverSkipFixation(first_fixation) == FALSE

\* if not first_fixation.on_surf: continue
SkipFixation(first_fixation) == ~first_fixation.on_surf

FixationStart(first_fixation) == first_fixation.start_timestamp

FixationEnd(first_fixation) ==
    FixationStart(first_fixation) + DurationSeconds(first_fixation.duration)

mask_after_start(row, fixation_start) == fixation_start <= row.pupil_timestamp

\* variant: pupil_timestamp < fixation_end
mask_before_end_strict(row, fixation_end) == row.pupil_timestamp < fixation_end

mask_before_end(row, fixation_end) == row.pupil_timestamp <= fixation_end

\* variant: confidence > MIN_CONFIDENCE
mask_above_confidence(row) == row.confidence > min_confidence

\* variant: the threshold written into the mask, the global not read
mask_fixed_confidence(row) == row.confidence >= MIN_CONFIDENCE

\* pupil_positions.confidence >= MIN_CONFIDENCE (the global set at line 173)
mask_high_confidence(row) == row.confidence >= min_confidence

\* pupil_positions[mask_after_start & mask_before_end & mask_high_confidence]
pupil_positions_during_fixation(pp, fixation_start, fixation_end) ==
    SelectSeq(pp, LAMBDA row : /\ mask_after_start(row, fixation_start)
                               /\ mask_before_end(row, fixation_end)
                               /\ mask_high_confidence(row))

\* variant: sum / max(count, 1), zero for an empty selection
MeanZeroWhenEmpty(rows) ==
    IF rows = <<>> THEN <<0, 1>> ELSE Fraction(SumDiameter(rows, 0), Len(rows))

\* variant: the value of the first selected row
MeanAsFirstValue(rows) ==
    IF rows = <<>> THEN NaN ELSE <<Head(rows).diameter_3d, 1>>

\* variant: Series.sum()
MeanAsSum(rows) ==
    IF rows = <<>> THEN NaN ELSE <<SumDiameter(rows, 0), 1>>

\* Series.mean(): NaN for an empty selection, else sum / count
Mean(rows) ==
    IF rows = <<>> THEN NaN ELSE Fraction(SumDiameter(rows, 0), Len(rows))

\* [fixation_id, diameter_3d_during_fixation.mean()]
ResultRow(first_fixation, pp) ==
    <<first_fixation.fixation_id,
      Mean(pupil_positions_during_fixation(
               pp, FixationStart(first_fixation), FixationEnd(first_fixation)))>>

\* the rows of pp outside the selection of one fixation
NotSelected(pp, first_fixation) ==
    SelectSeq(pp, LAMBDA row :
        ~(/\ mask_after_start(row, FixationStart(first_fixation))
          /\ mask_before_end(row, FixationEnd(first_fixation))
          /\ mask_high_confidence(row)))

\* variant: the samples selected for one fixation are dropped from the frame
\* the later fixations select from
RECURSIVE AggregationLoopConsuming(_, _, _, _)
AggregationLoopConsuming(keys, frame, pp, acc) ==
    IF keys = <<>> THEN acc
    ELSE LET first_fixation == FirstFixation(Group(frame, Head(keys)))
         IN  IF SkipFixation(first_fixation)
             THEN AggregationLoopConsuming(Tail(keys), frame, pp, acc)
             ELSE AggregationLoopConsuming(Tail(keys), frame,
                                           NotSelected(pp, first_fixation),
                                           Append(acc, ResultRow(first_fixation, pp)))

\* for _, fixations in fixations_on_surface.groupby("fixation_id"): ...
RECURSIVE AggregationLoop(_, _, _, _)
AggregationLoop(keys, frame, pp, acc) ==
    IF keys = <<>> THEN acc
    ELSE LET first_fixation == FirstFixation(Group(frame, Head(keys)))
         IN  IF SkipFixation(first_fixation)
             THEN AggregationLoop(Tail(keys), frame, pp, acc)
             ELSE AggregationLoop(Tail(keys), frame, pp,
                                  Append(acc, ResultRow(first_fixation, pp)))

\* variant: the loop appends to the list a previous execution left
KeptResults(previous) == previous

\* results = []
InitialResults(previous) == <<>>

Cell5_Aggregate ==
    /\ notebook = "06"
    /\ pc = "cell5"
    /\ results' = AggregationLoop(GroupKeys(fixations_on_surface),
                                  fixations_on_surface, pupil_positions,
                                  InitialResults(results))
    /\ pc' = "done"
    /\ UNCHANGED <<min_confidence, absent, notebook, pupil_positions, fixations_on_surface,
                   gaze, blinks, fixations>>

\* cell 5 executed a second time in the same kernel, the frames unchanged
Cell5_AggregateAgain ==
    /\ notebook = "06"
    /\ pc = "done"
    /\ results' = AggregationLoop(GroupKeys(fixations_on_surface),
                                  fixations_on_surface, pupil_positions,
                                  InitialResults(results))
    /\ pc' = "done_again"
    /\ UNCHANGED <<min_confidence, absent, notebook, pupil_positions, fixations_on_surface,
                   gaze, blinks, fixations>>

----------------------------------------------------------------------------
(* Tutorial 10, cells 11-14: end timestamps, label columns, tagging loops *)

\* fixations["end_timestamp"] = fixations.start_timestamp + fixations.duration / 1_000
\* variant: the duration column itself converted to seconds on the way
WithEndTimestampAndSeconds(row) ==
    WithColumn(WithColumn(row, "duration", DurationSeconds(row.duration)),
               "end_timestamp",
               row.start_timestamp + DurationSeconds(row.duration))

\* fixations["end_timestamp"] = fixations.start_timestamp + fixations.duration / 1_000
WithEndTimestamp(row) ==
    WithColumn(row, "end_timestamp",
               row.start_timestamp + DurationSeconds(row.duration))

\* fixations.start_timestamp, fixations.duration: attribute access on the
\* frame raises AttributeError when the column is missing, rows or no rows
EndTimestampRaises == Missing("fixations", {"start_timestamp", "duration"})

Cell11_EndTimestamp ==
    /\ notebook = "10"
    /\ pc = "cell11"
    /\ IF EndTimestampRaises
       THEN /\ pc' = "AttributeError"
            /\ UNCHANGED fixations
       ELSE /\ fixations' = [i \in DOMAIN fixations |-> WithEndTimestamp(fixations[i])]
            /\ pc' = "cell12"
    /\ UNCHANGED <<min_confidence, absent, notebook, pupil_positions, fixations_on_surface, results,
                   gaze, blinks>>

\* gaze["blink_id"] = None; gaze["fixation_id"] = None
\* variant: the label columns start at identifier 0
WithZeroLabelColumns(row) ==
    WithColumn(WithColumn(row, "blink_id", <<0>>), "fixation_id", <<0>>)

\* gaze["blink_id"] = None; gaze["fixation_id"] = None
WithLabelColumns(row) ==
    WithColumn(WithColumn(row, "blink_id", None), "fixation_id", None)

Cell12_InitLabels ==
    /\ notebook = "10"
    /\ pc = "cell12"
    /\ gaze' = [i \in DOMAIN gaze |-> WithLabelColumns(gaze[i])]
    /\ pc' = "cell13"
    /\ UNCHANGED <<min_confidence, absent, notebook, pupil_positions, fixations_on_surface, results,
                   blinks, fixations>>

\* Series.between(left, right): left <= series <= right
Between(x, left, right) == left <= x /\ x <= right

\* variant: only samples reaching the confidence threshold are matched
found_confident_sample_mask(row, event) ==
    /\ Between(row.gaze_timestamp, event.start_timestamp, event.end_timestamp)
    /\ row.confidence >= MIN_CONFIDENCE

found_sample_mask(row, event) ==
    Between(row.gaze_timestamp, event.start_timestamp, event.end_timestamp)

\* variant: a sample that carries a fixation label gets no blink label
SetBlinkIdUnlessFixation(row, blink) ==
    IF found_sample_mask(row, blink) /\ row.fixation_id = None
    THEN [row EXCEPT !.blink_id = <<blink.id>>]
    ELSE row

\* variant: the assignment also lands in the norm_pos_x column
SetBlinkIdAndPosition(row, blink) ==
    IF found_sample_mask(row, blink)
    THEN [row EXCEPT !.blink_id = <<blink.id>>, !.norm_pos_x = blink.id]
    ELSE row

\* gaze.loc[found_sample_mask, "blink_id"] = blink.id
SetBlinkId(row, blink) ==
    IF found_sample_mask(row, blink)
    THEN [row EXCEPT !.blink_id = <<blink.id>>]
    ELSE row

\* variant: a label once set is kept (first event wins)
SetFixationIdIfUnset(row, fixation) ==
    IF found_sample_mask(row, fixation) /\ row.fixation_id = None
    THEN [row EXCEPT !.fixation_id = <<fixation.id>>]
    ELSE row

\* variant: a row whose on_surf column is False tags nothing
SetFixationIdIfValid(row, fixation) ==
    IF /\ found_sample_mask(row, fixation)
       /\ ("on_surf" \in DOMAIN fixation => fixation.on_surf)
    THEN [row EXCEPT !.fixation_id = <<fixation.id>>]
    ELSE row

\* variant: the identifier is added to the label already there
SetFixationIdAccumulate(row, fixation) ==
    IF found_sample_mask(row, fixation)
    THEN [row EXCEPT !.fixation_id = @ \o <<fixation.id>>]
    ELSE row

\* gaze.loc[found_sample_mask, "fixation_id"] = fixation.id
SetFixationId(row, fixation) ==
    IF found_sample_mask(row, fixation)
    THEN [row EXCEPT !.fixation_id = <<fixation.id>>]
    ELSE row

\* for blink in blinks.itertuples(): ...
RECURSIVE TagBlinks(_, _)
TagBlinks(gz, events) ==
    IF events = <<>> THEN gz
    ELSE TagBlinks([i \in DOMAIN gz |-> SetBlinkId(gz[i], Head(events))],
                   Tail(events))

\* variant: a row whose identifier an earlier row carried is passed over
RECURSIVE TagFirstRows(_, _, _)
TagFirstRows(gz, events, seen) ==
    IF events = <<>> THEN gz
    ELSE IF Head(events).id \in seen
         THEN TagFirstRows(gz, Tail(events), seen)
         ELSE TagFirstRows([i \in DOMAIN gz |-> SetFixationId(gz[i], Head(events))],
                           Tail(events), seen \cup {Head(events).id})

TagFixationsFirstRows(gz, events) == TagFirstRows(gz, events, {})

\* for fixation in fixations.itertuples(): ...
RECURSIVE TagFixations(_, _)
TagFixations(gz, events) ==
    IF events = <<>> THEN gz
    ELSE TagFixations([i \in DOMAIN gz |-> SetFixationId(gz[i], Head(events))],
                      Tail(events))

\* variant: the columns are looked up before the loop, rows or no rows
BlinkLoopRaisesBeforeLoop ==
    \/ Missing("gaze", {"gaze_timestamp"})
    \/ Missing("blinks", {"start_timestamp", "end_timestamp", "id"})

\* gaze.gaze_timestamp, blink.start_timestamp, blink.end_timestamp and
\* blink.id are read in the loop body: AttributeError in the first iteration,
\* before its assignment, and none when the table has no row
BlinkLoopRaises ==
    /\ blinks # <<>>
    /\ \/ Missing("gaze", {"gaze_timestamp"})
       \/ Missing("blinks", {"start_timestamp", "end_timestamp", "id"})

FixationLoopRaises ==
    /\ fixations # <<>>
    /\ \/ Missing("gaze", {"gaze_timestamp"})
       \/ Missing("fixations", {"start_timestamp", "end_timestamp", "id"})

Cell13_TagBlinks ==
    /\ notebook = "10"
    /\ pc = "cell13"
    /\ IF BlinkLoopRaises
       THEN pc' = "AttributeError" /\ UNCHANGED gaze
       ELSE gaze' = TagBlinks(gaze, blinks) /\ pc' = "cell14"
    /\ UNCHANGED <<min_confidence, absent, notebook, pupil_positions, fixations_on_surface, results,
                   blinks, fixations>>

Cell14_TagFixations ==
    /\ notebook = "10"
    /\ pc = "cell14"
    /\ IF FixationLoopRaises
       THEN pc' = "AttributeError" /\ UNCHANGED gaze
       ELSE gaze' = TagFixations(gaze, fixations) /\ pc' = "done"
    /\ UNCHANGED <<min_confidence, absent, notebook, pupil_positions, fixations_on_surface, results,
                   blinks, fixations>>

\* cell 13 executed a second time, on the gaze frame the first pass left
Cell13_TagBlinksAgain ==
    /\ notebook = "10"
    /\ pc = "done"
    /\ IF BlinkLoopRaises
       THEN pc' = "AttributeError" /\ UNCHANGED gaze
       ELSE gaze' = TagBlinks(gaze, blinks) /\ pc' = "again14"
    /\ UNCHANGED <<min_confidence, absent, notebook, pupil_positions, fixations_on_surface, results,
                   blinks, fixations>>

\* cell 14 executed a second time
Cell14_TagFixationsAgain ==
    /\ notebook = "10"
    /\ pc = "again14"
    /\ IF FixationLoopRaises
       THEN pc' = "AttributeError" /\ UNCHANGED gaze
       ELSE gaze' = TagFixations(gaze, fixations) /\ pc' = "done_again"
    /\ UNCHANGED <<min_confidence, absent, notebook, pupil_positions, fixations_on_surface, results,
                   blinks, fixations>>

----------------------------------------------------------------------------
(* Specification *)

\* Tutorial 06 after cells 3-4: both frames loaded, columns selected
Init06 ==
    /\ min_confidence = MIN_CONFIDENCE
    /\ absent = {}
    /\ notebook = "06"
    /\ pc = "cell5"
    /\ pupil_positions \in SeqsUpTo(PupilRows, MaxSamples)
    /\ fixations_on_surface \in SeqsUpTo(FixationOnSurfaceRows, MaxEvents)
    /\ results = <<>>
    /\ gaze = <<>>
    /\ blinks = <<>>
    /\ fixations = <<>>

\* Tutorial 10 after cell 7: the three exports loaded
Init10 ==
    /\ min_confidence = MIN_CONFIDENCE
    /\ absent = {}
    /\ notebook = "10"
    /\ pc = "cell11"
    /\ pupil_positions = <<>>
    /\ fixations_on_surface = <<>>
    /\ results = <<>>
    /\ gaze \in SeqsUpTo(GazeRows, MaxSamples)
    /\ blinks \in BlinkTables
    /\ fixations \in SeqsUpTo(FixationRows, MaxEvents) \cup FlaggedFixationTables

Init == Init06 \/ Init10

Next ==
    \/ Cell5_Aggregate
    \/ Cell5_AggregateAgain
    \/ Cell11_EndTimestamp
    \/ Cell12_InitLabels
    \/ Cell13_TagBlinks
    \/ Cell14_TagFixations
    \/ Cell13_TagBlinksAgain
    \/ Cell14_TagFixationsAgain

Spec == Init /\ [][Next]_vars

\* -0.1, 0.8 and 1.1: values the literal of line 173 is edited to
Thresholds == {MIN_CONFIDENCE - 9, MIN_CONFIDENCE, MIN_CONFIDENCE + 3}

\* Tutorial 06 after cells 3-4, cell 5 run with MIN_CONFIDENCE set to any of
\* Thresholds
InitThreshold ==
    /\ min_confidence \in Thresholds
    /\ absent = {}
    /\ notebook = "06"
    /\ pc = "cell5"
    /\ pupil_positions \in SeqsUpTo(PupilRows, MaxThresholdRows)
    /\ fixations_on_surface \in SeqsUpTo(FixationOnSurfaceRows, MaxThresholdRows)
    /\ results = <<>>
    /\ gaze = <<>>
    /\ blinks = <<>>
    /\ fixations = <<>>

NextThreshold ==
    \/ Cell5_Aggregate
    \/ Cell5_AggregateAgain

SpecThreshold == InitThreshold /\ [][NextThreshold]_vars

\* one column missing from one csv file, or none
Defects06 ==
    {{}} \cup {{<<"pupil_positions", c>>} : c \in PupilColumns}
         \cup {{<<"fixations_on_surface", c>>} : c \in SurfaceFixationColumns}

Defects10 ==
    {{}} \cup {{<<"gaze", "gaze_timestamp">>}}
         \cup {{<<"blinks", c>>} : c \in {"id", "start_timestamp", "end_timestamp"}}
         \cup {{<<"fixations", c>>} : c \in {"id", "start_timestamp", "duration"}}

\* Tutorial 06 after cell 3: the files read, all their columns still there
\* (method among them), the 3d rows kept
InitSchema06 ==
    /\ min_confidence = MIN_CONFIDENCE
    /\ absent \in Defects06
    /\ notebook = "06"
    /\ pc = "cell4"
    /\ \E pp \in SeqsUpTo(PupilRows, MaxSchemaRows) :
          pupil_positions =
              LoadedWithout([i \in DOMAIN pp |-> WithColumn(pp[i], "method", "3d c++")],
                            "pupil_positions", absent)
    /\ \E fs \in SeqsUpTo(FixationOnSurfaceRows, MaxSchemaRows) :
          fixations_on_surface = LoadedWithout(fs, "fixations_on_surface", absent)
    /\ results = <<>>
    /\ gaze = <<>>
    /\ blinks = <<>>
    /\ fixations = <<>>

\* Tutorial 10 after cell 7
InitSchema10 ==
    /\ min_confidence = MIN_CONFIDENCE
    /\ absent \in Defects10
    /\ notebook = "10"
    /\ pc = "cell11"
    /\ pupil_positions = <<>>
    /\ fixations_on_surface = <<>>
    /\ results = <<>>
    /\ \E gz \in SeqsUpTo(GazeRows, MaxSchemaRows) :
          gaze = LoadedWithout(gz, "gaze", absent)
    /\ \E bs \in BlinkTables : blinks = LoadedWithout(bs, "blinks", absent)
    /\ \E fs \in SeqsUpTo(FixationRows, MaxSchemaRows) :
          fixations = LoadedWithout(fs, "fixations", absent)

InitSchema == InitSchema06 \/ InitSchema10

NextSchema ==
    \/ Cell4_SelectColumns
    \/ Cell5_Aggregate
    \/ Cell11_EndTimestamp
    \/ Cell12_InitLabels
    \/ Cell13_TagBlinks
    \/ Cell14_TagFixations

SpecSchema == InitSchema /\ [][NextSchema]_vars

\* samples at 10.0 s and 11.0 s
OrderTimestamps == {TimeBase, TimeBase + 2}

\* pupil samples of diameter 1.0 and 2^53, all at the confidence threshold
OrderPupilRows ==
    {[pupil_timestamp |-> t, diameter_3d |-> d, confidence |-> MIN_CONFIDENCE] :
        t \in OrderTimestamps, d \in {1, Unit53}}

OrderGazeRows == {row \in GazeRows : row.gaze_timestamp \in OrderTimestamps}

\* Tutorial 06 before cell 5, up to MaxOrderSamples samples in any row order
InitOrder06 ==
    /\ min_confidence = MIN_CONFIDENCE
    /\ absent = {}
    /\ notebook = "06"
    /\ pc = "cell5"
    /\ pupil_positions \in SeqsUpTo(OrderPupilRows, MaxOrderSamples)
    /\ fixations_on_surface \in SeqsUpTo(FixationOnSurfaceRows, MaxOrderEvents)
    /\ results = <<>>
    /\ gaze = <<>>
    /\ blinks = <<>>
    /\ fixations = <<>>

\* Tutorial 10 before cell 11, up to MaxOrderSamples samples in any row order
InitOrder10 ==
    /\ min_confidence = MIN_CONFIDENCE
    /\ absent = {}
    /\ notebook = "10"
    /\ pc = "cell11"
    /\ pupil_positions = <<>>
    /\ fixations_on_surface = <<>>
    /\ results = <<>>
    /\ gaze \in SeqsUpTo(OrderGazeRows, MaxOrderSamples)
    /\ blinks \in BlinkTables
    /\ fixations \in SeqsUpTo(FixationRows, MaxOrderEvents)

InitOrder == InitOrder06 \/ InitOrder10

NextOrder ==
    \/ Cell5_Aggregate
    \/ Cell11_EndTimestamp
    \/ Cell12_InitLabels
    \/ Cell13_TagBlinks
    \/ Cell14_TagFixations

SpecOrder == InitOrder /\ [][NextOrder]_vars

----------------------------------------------------------------------------
(* Reference definitions for the properties, stated on the loaded tables *)

Done06 == notebook = "06" /\ pc = "done"

Done10 == notebook = "10" /\ pc = "done"

InputIds == {fixations_on_surface[i].fixation_id : i \in DOMAIN fixations_on_surface}

\* position of the first row carrying identifier id
FirstIndex(id) ==
    CHOOSE i \in DOMAIN fixations_on_surface :
        /\ fixations_on_surface[i].fixation_id = id
        /\ \A j \in 1..(i - 1) : fixations_on_surface[j].fixation_id # id

FirstRow(id) == fixations_on_surface[FirstIndex(id)]

\* identifiers whose first row is on the surface
ValidIds == {id \in InputIds : FirstRow(id).on_surf}

\* closed window of an event row, in milliseconds
StartMs(row) == row.start_timestamp * TickMs

EndMs(row) == StartMs(row) + row.duration

InWindow(t, row) == StartMs(row) <= t * TickMs /\ t * TickMs <= EndMs(row)

\* positions of the pupil samples inside the row's window
InWindowSamples(row) ==
    {i \in DOMAIN pupil_positions : InWindow(pupil_positions[i].pupil_timestamp, row)}

\* ... that also reach the confidence threshold
Qualifying(row) ==
    {i \in InWindowSamples(row) : pupil_positions[i].confidence >= MIN_CONFIDENCE}

RECURSIVE SumOver(_)
SumOver(I) ==
    IF I = {} THEN 0
    ELSE LET i == CHOOSE x \in I : TRUE
         IN  pupil_positions[i].diameter_3d + SumOver(I \ {i})

\* v is the arithmetic mean of diameter_3d over the samples at positions I
IsMeanOf(v, I) ==
    IF I = {} THEN v = NaN
    ELSE /\ v # NaN
         /\ v[2] > 0
         /\ v[1] * Cardinality(I) = v[2] * SumOver(I)

ResultIds == [k \in DOMAIN results |-> results[k][1]]

----------------------------------------------------------------------------
(* Properties *)

\* C1 (as stated): the result rows come in the order in which their
\* identifiers first appear in the events input.
C1_FirstAppearanceOrder ==
    Done06 =>
        \A i, j \in DOMAIN results :
            i < j => FirstIndex(results[i][1]) < FirstIndex(results[j][1])

\* C1 (amended): the result rows are the identifiers whose first row is valid,
\* in ascending order of identifier, whatever the order of first appearance.
C1_AscendingIdentifierOrder ==
    Done06 =>
        /\ \A i, j \in DOMAIN results : i < j => results[i][1] < results[j][1]
        /\ \A id \in ValidIds : \E k \in DOMAIN results : results[k][1] = id

\* C1 witness: two rows emitted although the larger identifier appears first.
C1_Witness ==
    /\ Done06
    /\ Len(results) = 2
    /\ FirstIndex(results[2][1]) < FirstIndex(results[1][1])

\* C2: with several rows for one identifier, the emitted aggregate is the mean
\* over the first row's window alone; later rows' windows contribute nothing.
C2_DuplicateEventInvariance ==
    Done06 =>
        \A k \in DOMAIN results :
            IsMeanOf(results[k][2], Qualifying(FirstRow(results[k][1])))

\* C2 witness: an emitted identifier has a later row whose window holds a
\* different set of qualifying samples than the first row's window.
C2_Witness ==
    /\ Done06
    /\ \E k \in DOMAIN results :
         \E j \in DOMAIN fixations_on_surface :
            /\ fixations_on_surface[j].fixation_id = results[k][1]
            /\ j > FirstIndex(results[k][1])
            /\ Qualifying(fixations_on_surface[j]) # Qualifying(FirstRow(results[k][1]))
            /\ ~IsMeanOf(results[k][2], Qualifying(fixations_on_surface[j]))

\* C3: exactly one result row per distinct identifier whose first row is
\* valid: no identifier twice, no other identifier, as many rows as such
\* identifiers.
C3_OneRowPerValidIdentifier ==
    Done06 =>
        /\ \A i, j \in DOMAIN results : results[i][1] = results[j][1] => i = j
        /\ {results[k][1] : k \in DOMAIN results} = ValidIds
        /\ Len(results) = Cardinality(ValidIds)

\* C3 witness: the events input holds two rows for one valid identifier and
\* the result holds a single row.
C3_Witness ==
    /\ Done06
    /\ Len(results) = 1
    /\ \E i, j \in DOMAIN fixations_on_surface :
         /\ i < j
         /\ fixations_on_surface[i].fixation_id = fixations_on_surface[j].fixation_id
         /\ fixations_on_surface[i].on_surf

\* C4: an event whose validity flag (that of its first row) is false has no
\* result row at all, with no value of any kind, while the valid events of the
\* same input are emitted.
C4_InvalidEventAbsent ==
    Done06 =>
        \A i \in DOMAIN fixations_on_surface :
            LET row == fixations_on_surface[i]
            IN  i = FirstIndex(row.fixation_id) =>
                    IF row.on_surf
                    THEN \E k \in DOMAIN results : results[k][1] = row.fixation_id
                    ELSE \A k \in DOMAIN results : results[k][1] # row.fixation_id

\* C4 witness: an invalid event with a qualifying sample in its window is
\* absent while a valid event of the same input is emitted.
C4_Witness ==
    /\ Done06
    /\ Len(results) = 1
    /\ \E id \in InputIds :
         /\ ~FirstRow(id).on_surf
         /\ Qualifying(FirstRow(id)) # {}
         /\ id # results[1][1]

\* C5: a valid event with no qualifying sample in its window still has its
\* row, and the value of that row is NaN; a valid event whose qualifying
\* samples all have diameter 0 has the value 0.0, which is not NaN.
C5_EmptyMatchSentinel ==
    Done06 =>
        \A id \in ValidIds :
            \E k \in DOMAIN results :
                /\ results[k][1] = id
                /\ Qualifying(FirstRow(id)) = {} => results[k][2] = NaN
                /\ (/\ Qualifying(FirstRow(id)) # {}
                    /\ SumOver(Qualifying(FirstRow(id))) = 0)
                       => (results[k][2] = <<0, 1>> /\ results[k][2] # NaN)

\* C5 witness: one run emits a NaN row for an empty window and a 0.0 row for a
\* window holding a sample of diameter 0.
C5_Witness ==
    /\ Done06
    /\ \E k, m \in DOMAIN results :
         /\ results[k][2] = NaN
         /\ InWindowSamples(FirstRow(results[k][1])) # {}
         /\ results[m][2] = <<0, 1>>

\* C6: the confidence threshold is inclusive: the emitted value is the mean
\* over the samples of the window once exactly those with confidence strictly
\* below MIN_CONFIDENCE are dropped; a sample at MIN_CONFIDENCE stays.
C6_ConfidenceThresholdInclusive ==
    Done06 =>
        \A k \in DOMAIN results :
            LET W == InWindowSamples(FirstRow(results[k][1]))
                Below == {i \in W : pupil_positions[i].confidence < MIN_CONFIDENCE}
                AtThreshold == {i \in W : pupil_positions[i].confidence = MIN_CONFIDENCE}
            IN  /\ IsMeanOf(results[k][2], W \ Below)
                /\ AtThreshold # {} => results[k][2] # NaN
                /\ W = Below => results[k][2] = NaN

\* C6 witness: a window holds a sample at the threshold and a sample just
\* below it with another diameter; the value is the diameter of the first.
C6_Witness ==
    /\ Done06
    /\ \E k \in DOMAIN results :
         \E i, j \in InWindowSamples(FirstRow(results[k][1])) :
            /\ pupil_positions[i].confidence = MIN_CONFIDENCE
            /\ pupil_positions[j].confidence < MIN_CONFIDENCE
            /\ pupil_positions[i].diameter_3d # pupil_positions[j].diameter_3d
            /\ results[k][2] = <<pupil_positions[i].diameter_3d, 1>>

\* closed window of a blink row (explicit end_timestamp)
BlinkContains(blink, t) == blink.start_timestamp <= t /\ t <= blink.end_timestamp

\* closed window of a fixation row (start and duration)
FixationContains(fixation, t) == InWindow(t, fixation)

\* C7: windows are closed on both bounds in both operations.  Aggregation: a
\* high-confidence sample at the start or at the end of the window gives the
\* event a value, and an event whose high-confidence samples all lie strictly
\* before the start or strictly after the end has none.  Tagging: a gaze sample
\* at the start or at the end of a blink is labelled, and a sample strictly
\* outside every blink window is not.
C7_ClosedWindows ==
    /\ Done06 =>
         \A k \in DOMAIN results :
            LET row == FirstRow(results[k][1])
                High == {i \in DOMAIN pupil_positions :
                            pupil_positions[i].confidence >= MIN_CONFIDENCE}
                Tms(i) == pupil_positions[i].pupil_timestamp * TickMs
            IN  /\ (\E i \in High : Tms(i) = StartMs(row) \/ Tms(i) = EndMs(row))
                      => results[k][2] # NaN
                /\ (\A i \in High : Tms(i) < StartMs(row) \/ Tms(i) > EndMs(row))
                      => results[k][2] = NaN
    /\ Done10 =>
         \A i \in DOMAIN gaze :
            LET t == gaze[i].gaze_timestamp
            IN  /\ (\E b \in DOMAIN blinks :
                        t = blinks[b].start_timestamp \/ t = blinks[b].end_timestamp)
                      => gaze[i].blink_id # None
                /\ (\A b \in DOMAIN blinks :
                        t < blinks[b].start_timestamp \/ t > blinks[b].end_timestamp)
                      => gaze[i].blink_id = None

\* C7 witness: after tagging, one gaze sample sits on the end of a blink and is
\* labelled, another lies strictly after it and is not.
C7_Witness ==
    /\ Done10
    /\ \E b \in DOMAIN blinks :
         \E i, j \in DOMAIN gaze :
            /\ gaze[i].gaze_timestamp = blinks[b].end_timestamp
            /\ gaze[i].blink_id = <<blinks[b].id>>
            /\ gaze[j].gaze_timestamp > blinks[b].end_timestamp
            /\ gaze[j].blink_id = None

\* C8: the window end is start + duration / 1000.  Tagging: the end_timestamp
\* column holds it (in milliseconds: 1000 * end = 1000 * start + duration) and
\* a gaze sample carries a fixation label exactly when it lies between the
\* start and that end of some fixation.  Aggregation: an event has a value
\* exactly when a high-confidence sample lies between the start and that end.
C8_DurationToEnd ==
    /\ (notebook = "10" /\ pc # "cell11") =>
         \A j \in DOMAIN fixations :
            fixations[j].end_timestamp * TickMs
                = fixations[j].start_timestamp * TickMs + fixations[j].duration
    /\ Done10 =>
         \A i \in DOMAIN gaze :
            (gaze[i].fixation_id # None) <=>
                (\E j \in DOMAIN fixations :
                    /\ fixations[j].start_timestamp * TickMs
                          <= gaze[i].gaze_timestamp * TickMs
                    /\ gaze[i].gaze_timestamp * TickMs
                          <= fixations[j].start_timestamp * TickMs + fixations[j].duration)
    /\ Done06 =>
         \A k \in DOMAIN results :
            LET row == FirstRow(results[k][1])
            IN  (results[k][2] # NaN) <=>
                    (\E i \in DOMAIN pupil_positions :
                        /\ pupil_positions[i].confidence >= MIN_CONFIDENCE
                        /\ row.start_timestamp * TickMs
                              <= pupil_positions[i].pupil_timestamp * TickMs
                        /\ pupil_positions[i].pupil_timestamp * TickMs
                              <= row.start_timestamp * TickMs + row.duration)

\* C8 witness: an event with start 10.0 s and duration 500 ms, one sample at
\* 10.5 s and one at 11.0 s; the value is that of the sample at 10.5 s.
C8_Witness ==
    /\ Done06
    /\ Len(pupil_positions) = 2
    /\ \E k \in DOMAIN results :
         LET row == FirstRow(results[k][1])
         IN  /\ row.start_timestamp * TickMs = 10 * MS_PER_SECOND
             /\ row.duration = 500
             /\ pupil_positions[1].pupil_timestamp * TickMs = 10 * MS_PER_SECOND + 500
             /\ pupil_positions[2].pupil_timestamp * TickMs = 11 * MS_PER_SECOND
             /\ pupil_positions[1].confidence >= MIN_CONFIDENCE
             /\ pupil_positions[2].confidence >= MIN_CONFIDENCE
             /\ pupil_positions[1].diameter_3d # pupil_positions[2].diameter_3d
             /\ results[k][2] = <<pupil_positions[1].diameter_3d, 1>>

\* sum and count of diameter_3d over the rows of a frame that lie in the
\* window of an event row and reach the threshold, row by row
RECURSIVE SelectedSum(_, _)
SelectedSum(frame, row) ==
    IF frame = <<>> THEN 0
    ELSE (IF /\ InWindow(Head(frame).pupil_timestamp, row)
             /\ Head(frame).confidence >= MIN_CONFIDENCE
          THEN Head(frame).diameter_3d ELSE 0) + SelectedSum(Tail(frame), row)

RECURSIVE SelectedCount(_, _)
SelectedCount(frame, row) ==
    IF frame = <<>> THEN 0
    ELSE (IF /\ InWindow(Head(frame).pupil_timestamp, row)
             /\ Head(frame).confidence >= MIN_CONFIDENCE
          THEN 1 ELSE 0) + SelectedCount(Tail(frame), row)

\* C9: for a valid event with at least one qualifying sample the value is the
\* sum of diameter_3d over the qualifying samples divided by their number.
C9_ArithmeticMean ==
    Done06 =>
        \A id \in ValidIds :
            LET n == SelectedCount(pupil_positions, FirstRow(id))
                total == SelectedSum(pupil_positions, FirstRow(id))
            IN  n > 0 =>
                    \E k \in DOMAIN results :
                        /\ results[k][1] = id
                        /\ Len(results[k][2]) = 2
                        /\ results[k][2][2] > 0
                        /\ results[k][2][1] * n = total * results[k][2][2]

\* C9 witness: two qualifying samples of diameters 0 and 6 give the value 3.
C9_Witness ==
    /\ Done06
    /\ \E k \in DOMAIN results :
         /\ SelectedCount(pupil_positions, FirstRow(results[k][1])) = 2
         /\ SelectedSum(pupil_positions, FirstRow(results[k][1])) = 6
         /\ results[k][2] = <<3, 1>>

\* label of the last of the rows of events at positions J, None when J is
\* empty
LastLabel(events, J) ==
    IF J = {} THEN None
    ELSE <<events[CHOOSE j \in J : \A m \in J : m <= j].id>>

\* C10: after tagging, every sample's label is the identifier of the last
\* event in iteration order whose window contains the sample's timestamp, and
\* None exactly when no window contains it, overlapping windows included.
C10_LastWinsTagging ==
    Done10 =>
        \A i \in DOMAIN gaze :
            LET t == gaze[i].gaze_timestamp
                B == {j \in DOMAIN blinks : BlinkContains(blinks[j], t)}
                F == {j \in DOMAIN fixations : FixationContains(fixations[j], t)}
            IN  /\ gaze[i].blink_id = LastLabel(blinks, B)
                /\ gaze[i].fixation_id = LastLabel(fixations, F)

\* C10 witness: a sample inside the windows of two fixations with different
\* identifiers carries the identifier of the second, which is the smaller
\* one, and another sample lies in no fixation window and carries None.
C10_Witness ==
    /\ Done10
    /\ Len(fixations) = 2
    /\ fixations[2].id < fixations[1].id
    /\ \E i, j \in DOMAIN gaze :
         /\ FixationContains(fixations[1], gaze[i].gaze_timestamp)
         /\ FixationContains(fixations[2], gaze[i].gaze_timestamp)
         /\ gaze[i].fixation_id = <<fixations[2].id>>
         /\ gaze[j].fixation_id = None

\* C11: tagging is idempotent: executing the two tagging loops a second time,
\* with the same events, on the samples the first execution produced leaves
\* every label as it was.
C11_TaggingIdempotent ==
    [][(notebook = "10" /\ pc \in {"done", "again14"}) => gaze' = gaze]_vars

\* C11 witness: the second execution has ended and a sample carries both a
\* blink label and the label of the second of two fixations containing it.
C11_Witness ==
    /\ notebook = "10"
    /\ pc = "done_again"
    /\ Len(fixations) = 2
    /\ \E i \in DOMAIN gaze :
         /\ gaze[i].blink_id # None
         /\ FixationContains(fixations[1], gaze[i].gaze_timestamp)
         /\ FixationContains(fixations[2], gaze[i].gaze_timestamp)
         /\ fixations[1].id # fixations[2].id
         /\ gaze[i].fixation_id = <<fixations[2].id>>

\* C12: tagging does not look at confidence: every sample inside a blink or
\* fixation window, a sample of confidence 0 included, carries the identifier
\* of an event containing it, and two samples with the same timestamp carry
\* the same labels whatever their confidences; the aggregation leaves the
\* samples below MIN_CONFIDENCE out of the mean.
C12_TaggingIgnoresConfidence ==
    /\ Done10 =>
         /\ \A i \in DOMAIN gaze :
              LET t == gaze[i].gaze_timestamp
                  B == {j \in DOMAIN blinks : BlinkContains(blinks[j], t)}
                  F == {j \in DOMAIN fixations : FixationContains(fixations[j], t)}
              IN  /\ B # {} => \E j \in B : gaze[i].blink_id = <<blinks[j].id>>
                  /\ F # {} => \E j \in F : gaze[i].fixation_id = <<fixations[j].id>>
         /\ \A i, k \in DOMAIN gaze :
              gaze[i].gaze_timestamp = gaze[k].gaze_timestamp
                 => /\ gaze[i].blink_id = gaze[k].blink_id
                    /\ gaze[i].fixation_id = gaze[k].fixation_id
    /\ Done06 =>
         \A k \in DOMAIN results :
            LET W == InWindowSamples(FirstRow(results[k][1]))
            IN  IsMeanOf(results[k][2],
                         {i \in W : ~(pupil_positions[i].confidence < MIN_CONFIDENCE)})

\* C12 witness: a gaze sample of confidence 0 carries a blink label and a
\* fixation label.
C12_Witness ==
    /\ Done10
    /\ \E i \in DOMAIN gaze :
         /\ gaze[i].confidence = 0
         /\ gaze[i].blink_id # None
         /\ gaze[i].fixation_id # None

\* C13 (as stated): no step of the tagging notebook changes the blinks or the
\* fixations table in any way.
C13_EventsUnchanged ==
    [][notebook = "10" => (fixations' = fixations /\ blinks' = blinks)]_vars

\* C13 (amended): no step changes the blinks table, the number or order of
\* the fixation rows or the value of any column a fixation row has; the
\* tagging loops leave the fixations table as it is, and the derivation of the
\* window end adds one column, end_timestamp, to every fixation row.
C13_EventsKeptEndColumnAdded ==
    [][notebook = "10" =>
          /\ blinks' = blinks
          /\ Len(fixations') = Len(fixations)
          /\ \A j \in DOMAIN fixations :
                \A f \in DOMAIN fixations[j] : fixations'[j][f] = fixations[j][f]
          /\ pc # "cell11" => fixations' = fixations
          /\ pc = "cell11" =>
                \A j \in DOMAIN fixations :
                   /\ "end_timestamp" \notin DOMAIN fixations[j]
                   /\ DOMAIN fixations'[j] = DOMAIN fixations[j] \cup {"end_timestamp"}
      ]_vars

\* C13 witness: tagging has ended, both event tables have rows, a sample is
\* labelled, and the fixation rows hold the added end_timestamp column.
C13_Witness ==
    /\ Done10
    /\ blinks # <<>>
    /\ Len(fixations) = 2
    /\ \A j \in DOMAIN fixations :
         DOMAIN fixations[j] = {"id", "start_timestamp", "duration", "end_timestamp"}
    /\ \E i \in DOMAIN gaze : gaze[i].fixation_id # None /\ gaze[i].blink_id # None

\* C14 (as stated): after tagging no sample carries the identifier of an
\* event whose validity flag is false.
C14_InvalidEventTagsNothing ==
    Done10 =>
        \A j \in DOMAIN fixations :
            ("on_surf" \in DOMAIN fixations[j] /\ ~fixations[j].on_surf)
               => \A i \in DOMAIN gaze : gaze[i].fixation_id # <<fixations[j].id>>

\* C14 (amended): tagging reads no validity flag: a fixation row that carries
\* one, true or false, labels every sample in its window that no later
\* fixation row contains.
C14_ValidityNotRead ==
    Done10 =>
        \A j \in DOMAIN fixations :
            "on_surf" \in DOMAIN fixations[j] =>
                \A i \in DOMAIN gaze :
                    (/\ FixationContains(fixations[j], gaze[i].gaze_timestamp)
                     /\ \A m \in DOMAIN fixations :
                           m > j => ~FixationContains(fixations[m], gaze[i].gaze_timestamp))
                       => gaze[i].fixation_id = <<fixations[j].id>>

\* C14 witness: a fixation row with on_surf False has labelled a sample.
C14_Witness ==
    /\ Done10
    /\ \E j \in DOMAIN fixations :
         /\ "on_surf" \in DOMAIN fixations[j]
         /\ ~fixations[j].on_surf
         /\ \E i \in DOMAIN gaze : gaze[i].fixation_id = <<fixations[j].id>>

LabelColumns == {"blink_id", "fixation_id"}

\* C15: every step of the tagging notebook keeps the number and order of the
\* gaze samples, the set of their other columns, and the value of every
\* column other than blink_id and fixation_id (timestamp, confidence,
\* position).
C15_OnlyLabelColumnsChange ==
    [][notebook = "10" =>
          /\ Len(gaze') = Len(gaze)
          /\ \A i \in DOMAIN gaze :
                /\ DOMAIN gaze'[i] \ LabelColumns = DOMAIN gaze[i] \ LabelColumns
                /\ \A f \in DOMAIN gaze[i] \ LabelColumns : gaze'[i][f] = gaze[i][f]
      ]_vars

\* C15 witness: two samples loaded in descending order of timestamp, both
\* labelled, still in that order with their confidence and position.
C15_Witness ==
    /\ Done10
    /\ Len(gaze) = 2
    /\ gaze[1].gaze_timestamp > gaze[2].gaze_timestamp
    /\ gaze[1].blink_id # None
    /\ gaze[2].fixation_id # None
    /\ gaze[1].norm_pos_x # gaze[2].norm_pos_x
    /\ gaze[1].confidence # gaze[2].confidence

\* C16: with an empty blinks table every sample ends with blink_id None, with
\* an empty fixations table every sample ends with fixation_id None, and an
\* empty gaze frame stays empty through every step up to the end of the run.
C16_EmptyInputs ==
    [][notebook = "10" =>
          /\ gaze = <<>> => (gaze' = <<>> /\ pc' # pc)
          /\ (pc' = "done" /\ blinks' = <<>>) =>
                \A i \in DOMAIN gaze' : gaze'[i].blink_id = None
          /\ (pc' = "done" /\ fixations' = <<>>) =>
                \A i \in DOMAIN gaze' : gaze'[i].fixation_id = None
      ]_vars

\* C16 witness: tagging has ended with both event tables empty and two
\* samples in the gaze frame.
C16_Witness ==
    /\ Done10
    /\ blinks = <<>>
    /\ fixations = <<>>
    /\ Len(gaze) = 2
    /\ \A i \in DOMAIN gaze : gaze[i].blink_id = None /\ gaze[i].fixation_id = None

\* 1.0 in tenths: the upper end of the confidence range
ConfidenceOne == MIN_CONFIDENCE + 2

ThresholdOutOfRange == min_confidence < 0 \/ min_confidence > ConfidenceOne

HasLabelColumns == \E i \in DOMAIN gaze : LabelColumns \cap DOMAIN gaze[i] # {}

C19_SameInputsSameResult ==
    [][(notebook = "06" /\ pc = "done") => results' = results]_vars

\* C19 witness: the second execution has ended with two rows, one with a
\* value and one NaN.
C19_Witness ==
    /\ notebook = "06"
    /\ pc = "done_again"
    /\ Len(results) = 2
    /\ results[1][2] # NaN
    /\ results[2][2] = NaN

\* C20: for an identifier with more than one row, the identifier has a result
\* row exactly when its first row is on the surface, whatever the later rows
\* say.
C20_FirstRowDecidesValidity ==
    Done06 =>
        \A id \in InputIds :
            Cardinality({i \in DOMAIN fixations_on_surface :
                            fixations_on_surface[i].fixation_id = id}) > 1
               => ((\E k \in DOMAIN results : results[k][1] = id)
                     <=> fixations_on_surface[FirstIndex(id)].on_surf)

\* C20 witness: the first row of an identifier is off the surface, its second
\* row is on it, and the result is empty.
C20_Witness ==
    /\ Done06
    /\ Len(fixations_on_surface) = 2
    /\ fixations_on_surface[1].fixation_id = fixations_on_surface[2].fixation_id
    /\ ~fixations_on_surface[1].on_surf
    /\ fixations_on_surface[2].on_surf
    /\ results = <<>>

\* C21: the fixation loop handles every row, rows repeating an identifier
\* included: a sample in the window of a row whose identifier an earlier row
\* already carried, and in the window of no later row, has that identifier,
\* also when it lies outside the window of the identifier's first row.
C21_DuplicateRowsTag ==
    Done10 =>
        \A j \in DOMAIN fixations :
            (\E m \in 1..(j - 1) : fixations[m].id = fixations[j].id) =>
                \A i \in DOMAIN gaze :
                    (/\ FixationContains(fixations[j], gaze[i].gaze_timestamp)
                     /\ \A n \in DOMAIN fixations :
                           n > j => ~FixationContains(fixations[n], gaze[i].gaze_timestamp))
                       => gaze[i].fixation_id = <<fixations[j].id>>

\* C21 witness: two rows with one identifier; a sample outside the first
\* row's window and inside the second row's carries the identifier.
C21_Witness ==
    /\ Done10
    /\ Len(fixations) = 2
    /\ fixations[1].id = fixations[2].id
    /\ \E i \in DOMAIN gaze :
         /\ ~FixationContains(fixations[1], gaze[i].gaze_timestamp)
         /\ FixationContains(fixations[2], gaze[i].gaze_timestamp)
         /\ gaze[i].fixation_id = <<fixations[2].id>>

\* C22: the result rows are strictly increasing in identifier, first and
\* second execution alike: the k-th row carries the k-th smallest of the valid
\* identifiers, whatever the order of the rows of the events input.
C22_StrictlyIncreasingIdentifiers ==
    (notebook = "06" /\ pc \in {"done", "done_again"}) =>
        /\ \A k \in 1..(Len(results) - 1) : results[k][1] < results[k + 1][1]
        /\ \A k \in DOMAIN results :
              /\ results[k][1] \in ValidIds
              /\ Cardinality({id \in ValidIds : id < results[k][1]}) = k - 1

\* C22 witness: the events input holds the larger identifier in its first
\* row and the smaller in its second; the rows come out smaller first, the
\* first of them with a value.
C22_Witness ==
    /\ Done06
    /\ Len(fixations_on_surface) = 2
    /\ fixations_on_surface[1].fixation_id > fixations_on_surface[2].fixation_id
    /\ Len(results) = 2
    /\ results[1][1] = fixations_on_surface[2].fixation_id
    /\ results[2][1] = fixations_on_surface[1].fixation_id
    /\ results[1][2] # NaN

\* C23: the blink loop changes no fixation_id and the fixation loop no
\* blink_id; the fixation loop run before the blink loop on the same frame
\* ends with the labels the notebook's order ends with; and at the end a
\* sample inside a blink window and a fixation window carries an identifier
\* in each column.
C23_PassesIndependent ==
    [][notebook = "10" =>
          /\ pc = "cell13" =>
                /\ \A i \in DOMAIN gaze : gaze'[i].fixation_id = gaze[i].fixation_id
                /\ TagFixations(gaze', fixations)
                      = TagBlinks(TagFixations(gaze, fixations), blinks)
          /\ pc = "cell14" =>
                \A i \in DOMAIN gaze : gaze'[i].blink_id = gaze[i].blink_id
          /\ pc' = "done" =>
                \A i \in DOMAIN gaze' :
                    LET t == gaze'[i].gaze_timestamp
                    IN  ((\E b \in DOMAIN blinks : BlinkContains(blinks[b], t))
                           /\ (\E j \in DOMAIN fixations : FixationContains(fixations[j], t)))
                          => (gaze'[i].blink_id # None /\ gaze'[i].fixation_id # None)
      ]_vars

\* C23 witness: a sample carries the identifier 1 of a blink and the
\* identifier 2 of a fixation, and another sample carries neither.
C23_Witness ==
    /\ Done10
    /\ \E i, k \in DOMAIN gaze :
         /\ gaze[i].blink_id = <<1>>
         /\ gaze[i].fixation_id = <<2>>
         /\ gaze[k].blink_id = None
         /\ gaze[k].fixation_id = None

\* the permutations of the positions of a frame, and the frame reordered
Permutations(frame) ==
    {p \in [DOMAIN frame -> DOMAIN frame] :
        \A i, j \in DOMAIN frame : p[i] = p[j] => i = j}

Permuted(frame, p) == [k \in DOMAIN frame |-> frame[p[k]]]

\* the result rows of cell 5 on the samples pp, the events as loaded
AggregateOf(pp) ==
    AggregationLoop(GroupKeys(fixations_on_surface), fixations_on_surface, pp, <<>>)

\* the gaze frame after cells 12-14 on the samples gz (labels reset)
TaggedOf(gz) ==
    TagFixations(TagBlinks([i \in DOMAIN gz |-> WithLabelColumns(gz[i])], blinks),
                 fixations)

\* C24 (as stated): for every permutation of the samples the aggregation
\* returns the very same rows and the tagging gives every sample the label it
\* has in the loaded order.
C24_SampleOrderIrrelevant ==
    /\ Done06 =>
         \A p \in Permutations(pupil_positions) :
            AggregateOf(Permuted(pupil_positions, p)) = results
    /\ Done10 =>
         \A p \in Permutations(gaze) :
            \A k \in DOMAIN gaze : TaggedOf(Permuted(gaze, p))[k] = gaze[p[k]]

\* |a - b| for two fractions, times both denominators
FractionGap(a, b) ==
    IF a[1] * b[2] >= b[1] * a[2]
    THEN a[1] * b[2] - b[1] * a[2]
    ELSE b[1] * a[2] - a[1] * b[2]

\* C24 (amended): for every permutation of the samples the tagging gives
\* every sample the same labels, and the aggregation returns the same
\* identifiers in the same order with NaN in the same rows; the values are
\* equal when the sum of the selected diameters stays below 2^53 (no addition
\* rounds) and otherwise differ by no more than the float64 rounding of the
\* n - 1 additions of the sum, (n - 1) * ulp / n.
C24_SampleOrderUpToRounding ==
    /\ Done06 =>
         \A p \in Permutations(pupil_positions) :
            LET other == AggregateOf(Permuted(pupil_positions, p))
            IN  /\ Len(other) = Len(results)
                /\ \A k \in DOMAIN results :
                      LET Q == Qualifying(FirstRow(results[k][1]))
                          n == Cardinality(Q)
                          ulp == Pow2(BitLen(SumOver(Q) \div Unit53))
                      IN  /\ other[k][1] = results[k][1]
                          /\ (other[k][2] = NaN) <=> (results[k][2] = NaN)
                          /\ SumOver(Q) < Unit53 => other[k][2] = results[k][2]
                          /\ results[k][2] # NaN =>
                                FractionGap(other[k][2], results[k][2]) * n
                                   <= (n - 1) * ulp * other[k][2][2] * results[k][2][2]
    /\ Done10 =>
         \A p \in Permutations(gaze) :
            \A k \in DOMAIN gaze : TaggedOf(Permuted(gaze, p))[k] = gaze[p[k]]

\* C24 witness: the window of an emitted event holds the samples 2^53, 1.0
\* and 1.0 in this order; their float64 sum is 2^53, and the same samples
\* with 2^53 last give 2^53 + 2.
C24_Witness ==
    /\ Done06
    /\ Len(pupil_positions) = 3
    /\ pupil_positions[1].diameter_3d = Unit53
    /\ pupil_positions[2].diameter_3d = 1
    /\ pupil_positions[3].diameter_3d = 1
    /\ \E k \in DOMAIN results :
         /\ Qualifying(FirstRow(results[k][1])) = {1, 2, 3}
         /\ results[k][2] = Fraction(Unit53, 3)
         /\ \E p \in Permutations(pupil_positions) :
               AggregateOf(Permuted(pupil_positions, p))[k][2] = Fraction(Unit53 + 2, 3)

\* C25: the selection is made per event on the whole frame: when a qualifying
\* sample lies in the windows of two distinct valid identifiers, each of the
\* two has a row whose value is not NaN and is the mean over all the
\* qualifying samples of its own window, the shared sample included.
C25_SelectionNotExclusive ==
    Done06 =>
        \A a, b \in ValidIds :
            (a # b /\ Qualifying(FirstRow(a)) \cap Qualifying(FirstRow(b)) # {}) =>
                \A id \in {a, b} :
                    \E k \in DOMAIN results :
                        /\ results[k][1] = id
                        /\ results[k][2] # NaN
                        /\ IsMeanOf(results[k][2], Qualifying(FirstRow(id)))

\* C25 witness: one sample of diameter 6 at 10.5 s, the end of the window of
\* identifier 1 and the start of the window of identifier 2; both rows hold 6.
C25_Witness ==
    /\ Done06
    /\ Len(pupil_positions) = 1
    /\ pupil_positions[1].diameter_3d = 6
    /\ Len(results) = 2
    /\ Qualifying(FirstRow(results[1][1])) = {1}
    /\ Qualifying(FirstRow(results[2][1])) = {1}
    /\ results[1][2] = <<6, 1>>
    /\ results[2][2] = <<6, 1>>

====
